---- MODULE Spec2Model ----
(***************************************************************************)
(* State-machine model of models/space.js (turtl-server): role based       *)
(* permission checks, space / member / item mutations and the sync         *)
(* records they fan out.  Every handler is a chain of promises; each       *)
(* storage round-trip of a chain is one atomic step of the calling         *)
(* process, so two calls interleave exactly at the storage calls.          *)
(***************************************************************************)
EXTENDS Integers, Sequences, FiniteSets, TLC

(* ------------------------------------------------------------------ *)
(* Bounds and finite input sets                                       *)
(* ------------------------------------------------------------------ *)

\* number of handler invocations in one behaviour
MaxCalls == 2

\* handler invocations in flight together
Procs == {1, 2}
Users == {"u1", "u2", "u3"}
SpaceIds == {"s1", "s2", "s3"}
NoteIds == {"n1"}
BoardIds == {"b1"}
ItemIds == NoteIds \cup BoardIds
Bodies == {"v1", "v2"}
Keys == {"ka", "kb"}
None == "none"

(* ------------------------------------------------------------------ *)
(* Roles and permissions (space.js 24-29: libperm tables)             *)
(* ------------------------------------------------------------------ *)

roles == {"owner", "admin", "moderator", "member", "guest"}

permissions ==
    {"edit_space", "delete_space", "set_space_owner",
     "edit_space_member", "delete_space_member",
     "add_space_invite", "edit_space_invite", "delete_space_invite",
     "add_board", "edit_board", "delete_board",
     "add_note", "edit_note", "delete_note"}

guest_permissions == {}
member_permissions ==
    guest_permissions \cup {"edit_board", "add_note", "edit_note", "delete_note"}
moderator_permissions ==
    member_permissions \cup {"add_board", "delete_board"}
admin_permissions ==
    moderator_permissions \cup
        {"edit_space", "edit_space_member", "delete_space_member",
         "add_space_invite", "edit_space_invite", "delete_space_invite"}
owner_permissions ==
    admin_permissions \cup {"set_space_owner", "delete_space"}

role_permissions(role) ==
    CASE role = "owner" -> owner_permissions
      [] role = "admin" -> admin_permissions
      [] role = "moderator" -> moderator_permissions
      [] role = "member" -> member_permissions
      [] role = "guest" -> guest_permissions

(* ------------------------------------------------------------------ *)
(* State                                                              *)
(* ------------------------------------------------------------------ *)

VARIABLES
    spaces,          \* table spaces:        space id -> row
    spaces_users,    \* table spaces_users:  set of membership rows
    spaces_invites,  \* table spaces_invites: set of invite rows
    items,           \* tables notes/boards: item id -> row
    keychain,        \* table keychain:      set of entries
    sync,            \* the sync ledger: sequence of add_record emissions
    next_id,         \* serial of the spaces_users primary key
    ncalls,          \* number of handler invocations started
    calls            \* per process: the running (or last finished) call

vars == <<spaces, spaces_users, spaces_invites, items, keychain, sync,
          next_id, ncalls, calls>>

db == <<spaces, spaces_users, spaces_invites, items, keychain>>

NoSpace == [exists |-> FALSE, user_id |-> None, body |-> None]
NoItem == [exists |-> FALSE, space_id |-> None, user_id |-> None, keys |-> None]
NoRow == [id |-> 0, space_id |-> None, user_id |-> None, role |-> None]
NoUsers == [u \in Users |-> 0]

Space(user_id, body) == [exists |-> TRUE, user_id |-> user_id, body |-> body]
Item(space_id, user_id, keys) ==
    [exists |-> TRUE, space_id |-> space_id, user_id |-> user_id, keys |-> keys]
Row(id, space_id, user_id, role) ==
    [id |-> id, space_id |-> space_id, user_id |-> user_id, role |-> role]

ItemType(item_id) == IF item_id \in NoteIds THEN "note" ELSE "board"

\* the locals of an idle process
NoData == [role |-> None, body |-> None, user_id |-> None,
           space_id |-> None, keys |-> None]
Idle ==
    [op |-> "idle", pc |-> "idle", id |-> 0,
     user_id |-> None, space_id |-> None, item_id |-> None, target |-> None,
     data |-> NoData,
     space |-> NoSpace, item |-> NoItem,
     member |-> NoRow, cur_owner_member |-> NoRow, new_owner_member |-> NoRow,
     has_perm |-> FALSE,
     user_ids |-> NoUsers, affected_users |-> NoUsers,
     old_user_ids |-> NoUsers, new_user_ids |-> NoUsers,
     old_space_id |-> None, new_space_id |-> None,
     pending |-> {}, failed |-> {},
     sub |-> [i \in ItemIds |-> [pc |-> "none", space_id |-> None, user_ids |-> NoUsers]],
     invites |-> {}, entries |-> {}, deleted |-> {},
     hooked |-> FALSE, alone |-> TRUE,
     wrote |-> {}, result |-> None, sync_ids |-> 0]

(* ------------------------------------------------------------------ *)
(* Storage helpers                                                    *)
(* ------------------------------------------------------------------ *)

\* get_space_user_record: db.first over the matching rows (any one of them),
\* NoRow when there is none
get_space_user_record(user_id, space_id) ==
    LET rows == {r \in spaces_users : r.space_id = space_id /\ r.user_id = user_id}
    IN  IF rows = {} THEN {NoRow} ELSE rows

\* get_space_user_ids: one user id per membership row of the space
get_space_user_ids(space_id) ==
    [u \in Users |->
        Cardinality({r \in spaces_users : r.space_id = space_id /\ r.user_id = u})]

\* get_by_id(space_id): the space row, NoSpace ("false") when absent
get_by_id(space_id) == spaces[space_id]

\* the lookup function handed to simple_edit/simple_delete/simple_move_space
item_get_by_id(item_id) == items[item_id]

\* one user id, as a recipient list
Only(user_id) == [u \in Users |-> IF u = user_id THEN 1 ELSE 0]

Members(user_ids) == {u \in Users : user_ids[u] > 0}

\* sync_model.add_record: one ledger record per recipient of the list
add_record_skip(call, user_ids, user_id, type, item_id, action) ==
    sync

add_record(call, user_ids, user_id, type, item_id, action) ==
    Append(sync, [call |-> call, to |-> user_ids, actor |-> user_id,
                  type |-> type, item_id |-> item_id, action |-> action])

(* ------------------------------------------------------------------ *)
(* permissions_check / user_has_permission                            *)
(* ------------------------------------------------------------------ *)

\* permissions_check letting a user without a record through
permissions_check_no_record(space_user, permission) ==
    IF space_user = NoRow THEN "ok"
    ELSE IF permission \in role_permissions(space_user.role) THEN "ok"
    ELSE "FORBIDDEN"

\* permissions_check without the indexOf test
permissions_check_any_member(space_user, permission) ==
    IF space_user = NoRow THEN "FORBIDDEN" ELSE "ok"

\* the outcome of permissions_check once the membership record is read
permissions_check(space_user, permission) ==
    IF space_user = NoRow THEN "FORBIDDEN"
    ELSE IF permission \in role_permissions(space_user.role) THEN "ok"
    ELSE "FORBIDDEN"

\* user_has_permission: true on success, false on a forbidden error
user_has_permission(space_user, permission) ==
    permissions_check(space_user, permission) = "ok"

(* ------------------------------------------------------------------ *)
(* Process bookkeeping                                                *)
(* ------------------------------------------------------------------ *)

Vacant(p) == calls[p].pc \in {"idle", "done"}

\* a new invocation takes the lowest vacant slot
Free(p) ==
    /\ Vacant(p)
    /\ ncalls < MaxCalls
    /\ \A q \in Procs : q < p => ~Vacant(q)

At(p, pc) == calls[p].pc = pc

\* a call is `alone` when no other call is in flight at any time of its run
Begin(p, op, pc, user_id, space_id, item_id, target, data) ==
    /\ ncalls' = ncalls + 1
    /\ calls' = [q \in Procs |->
                    IF q = p
                    THEN [Idle EXCEPT !.op = op, !.pc = pc, !.id = ncalls + 1,
                                      !.user_id = user_id, !.space_id = space_id,
                                      !.item_id = item_id, !.target = target,
                                      !.data = data,
                                      !.alone = \A r \in Procs \ {p} : Vacant(r)]
                    ELSE [calls[q] EXCEPT !.alone = @ /\ Vacant(q)]]

Finish(c, result) == [c EXCEPT !.pc = "done", !.result = result, !.pending = {}]

Wrote(c, table) == [c EXCEPT !.wrote = @ \cup {table}]

Goto(c, pc) == [c EXCEPT !.pc = pc]

\* a db.update that found no row to write: the call is answered, no row changed
Missed(c, table) == [c EXCEPT !.failed = @ \cup {table}]

(* ------------------------------------------------------------------ *)
(* Init: two spaces with members, a note and a board, an invite and    *)
(* keychain entries, as left by earlier add / invite-accept calls      *)
(* ------------------------------------------------------------------ *)

Init ==
    /\ spaces = [s \in SpaceIds |->
                    CASE s = "s1" -> Space("u1", "v1")
                      [] s = "s2" -> Space("u2", "v1")
                      [] OTHER -> NoSpace]
    /\ spaces_users = {Row(1, "s1", "u1", "owner"), Row(2, "s1", "u2", "admin"),
                       Row(3, "s2", "u2", "owner"), Row(4, "s2", "u3", "guest")}
    /\ spaces_invites = {[id |-> "inv1", space_id |-> "s1", to_user |-> "u3"]}
    /\ items = [i \in ItemIds |->
                    IF i \in NoteIds THEN Item("s1", "u1", "ka")
                    ELSE Item("s2", "u2", "ka")]
    /\ keychain = {[id |-> "k1", user_id |-> "u1", item_id |-> "s1"],
                   [id |-> "k2", user_id |-> "u2", item_id |-> "s1"]}
    /\ sync = <<>>
    /\ next_id = 5
    /\ ncalls = 0
    /\ calls = [p \in Procs |-> Idle]

(* ------------------------------------------------------------------ *)
(* add (space.js 375-391)                                             *)
(* ------------------------------------------------------------------ *)

start_add(p, U, S, B) ==
    /\ Free(p)
    /\ \E u \in U, s \in S, b \in B :
        Begin(p, "add", "add_upsert", u, s, None, None,
              [NoData EXCEPT !.user_id = u, !.body = b])
    /\ UNCHANGED <<db, sync, next_id>>

\* db.upsert('spaces', {id: data.id, data: data}, 'id')
add_upsert(p) ==
    LET c == calls[p] IN
    /\ At(p, "add_upsert")
    /\ spaces' = [spaces EXCEPT ![c.space_id] = Space(c.data.user_id, c.data.body)]
    /\ calls' = [calls EXCEPT ![p] = Goto(Wrote(c, "spaces"), "add_member")]
    /\ UNCHANGED <<spaces_users, spaces_invites, items, keychain, sync, next_id, ncalls>>

\* db.insert('spaces_users', {space_id, user_id, role})
create_space_user_record(space_id, user_id, role) ==
    spaces_users \cup {Row(next_id, space_id, user_id, role)}

add_member(p) ==
    LET c == calls[p] IN
    /\ At(p, "add_member")
    /\ spaces_users' = create_space_user_record(c.space_id, c.user_id, "owner")
    /\ next_id' = next_id + 1
    /\ calls' = [calls EXCEPT ![p] = Goto(Wrote(c, "spaces_users"), "add_sync")]
    /\ UNCHANGED <<spaces, spaces_invites, items, keychain, sync, ncalls>>

\* add telling every member of the space instead of the creator alone
add_sync_to_members(p) ==
    LET c == calls[p] IN
    /\ At(p, "add_sync")
    /\ sync' = add_record(c.id, get_space_user_ids(c.space_id), c.user_id,
                          "space", c.space_id, "add")
    /\ calls' = [calls EXCEPT ![p] = Finish([c EXCEPT !.sync_ids = 1], "ok")]
    /\ UNCHANGED <<db, next_id, ncalls>>

add_sync(p) ==
    LET c == calls[p] IN
    /\ At(p, "add_sync")
    /\ sync' = add_record(c.id, Only(c.user_id), c.user_id, "space", c.space_id, "add")
    /\ calls' = [calls EXCEPT ![p] = Finish([c EXCEPT !.sync_ids = 1], "ok")]
    /\ UNCHANGED <<db, next_id, ncalls>>

(* ------------------------------------------------------------------ *)
(* edit (space.js 393-417)                                            *)
(* ------------------------------------------------------------------ *)

\* the payload's user_id is any user's; it is kept in `target` as given
start_edit(p, U, S, B) ==
    /\ Free(p)
    /\ \E u \in U, s \in S, b \in B, o \in Users :
        Begin(p, "edit", "edit_check", u, s, None, o,
              [NoData EXCEPT !.user_id = o, !.body = b])
    /\ UNCHANGED <<db, sync, next_id>>

edit_check(p) ==
    LET c == calls[p] IN
    /\ At(p, "edit_check")
    /\ \E su \in get_space_user_record(c.user_id, c.space_id) :
        calls' = [calls EXCEPT ![p] =
                    IF permissions_check(su, "edit_space") = "ok"
                    THEN Goto(c, "edit_get") ELSE Finish(c, "FORBIDDEN")]
    /\ UNCHANGED <<db, sync, next_id, ncalls>>

\* edit without the "preserve user_id" assignment
edit_get_keep_payload(p) ==
    LET c == calls[p] IN
    /\ At(p, "edit_get")
    /\ calls' = [calls EXCEPT ![p] = Goto(c, "edit_update")]
    /\ UNCHANGED <<db, sync, next_id, ncalls>>

\* get_by_id(space_id); "preserve user_id": data.user_id = space_data.user_id
edit_get(p) ==
    LET c == calls[p] IN
    /\ At(p, "edit_get")
    /\ calls' = [calls EXCEPT ![p] =
                    [c EXCEPT !.pc = "edit_update",
                              !.data.user_id = get_by_id(c.space_id).user_id]]
    /\ UNCHANGED <<db, sync, next_id, ncalls>>

\* db.update('spaces', space_id, {data: data}); no row is written (and none
\* returned) when the space row is gone
edit_update(p) ==
    LET c == calls[p] IN
    /\ At(p, "edit_update")
    /\ IF spaces[c.space_id].exists
       THEN /\ spaces' = [spaces EXCEPT ![c.space_id] =
                                Space(c.data.user_id, c.data.body)]
            /\ calls' = [calls EXCEPT ![p] =
                            [Wrote(c, "spaces") EXCEPT !.pc = "edit_ids",
                                !.space = Space(c.data.user_id, c.data.body)]]
       ELSE /\ spaces' = spaces
            /\ calls' = [calls EXCEPT ![p] = Goto(Missed(c, "spaces"), "edit_ids")]
    /\ UNCHANGED <<spaces_users, spaces_invites, items, keychain, sync, next_id, ncalls>>

edit_ids(p) ==
    LET c == calls[p] IN
    /\ At(p, "edit_ids")
    /\ calls' = [calls EXCEPT ![p] =
                    [c EXCEPT !.pc = "edit_sync",
                              !.user_ids = get_space_user_ids(c.space_id)]]
    /\ UNCHANGED <<db, sync, next_id, ncalls>>

\* add_record, then space.sync_ids = sync_ids (a TypeError when db.update
\* returned no row)
edit_sync(p) ==
    LET c == calls[p] IN
    /\ At(p, "edit_sync")
    /\ sync' = add_record(c.id, c.user_ids, c.user_id, "space", c.space_id, "edit")
    /\ calls' = [calls EXCEPT ![p] =
                    Finish(c, IF c.space.exists THEN "ok" ELSE "ERROR")]
    /\ UNCHANGED <<db, next_id, ncalls>>

(* ------------------------------------------------------------------ *)
(* update_member (space.js 271-305)                                   *)
(* ------------------------------------------------------------------ *)

\* vlad 'space-member' (space.js 20-22) accepts any string as role; the
\* roles of the table are the inputs drawn here
start_update_member(p, U, S, M, R) ==
    /\ Free(p)
    /\ \E u \in U, s \in S, m \in M, r \in R :
        Begin(p, "update_member", "um_check", u, s, None, m,
              [NoData EXCEPT !.role = r])
    /\ UNCHANGED <<db, sync, next_id>>

um_check(p) ==
    LET c == calls[p] IN
    /\ At(p, "um_check")
    /\ \E su \in get_space_user_record(c.user_id, c.space_id) :
        calls' = [calls EXCEPT ![p] =
                    IF permissions_check(su, "edit_space_member") = "ok"
                    THEN Goto(c, "um_get") ELSE Finish(c, "FORBIDDEN")]
    /\ UNCHANGED <<db, sync, next_id, ncalls>>

\* the guard of update_member on the record it read
update_member_guard_none(member) ==
    IF member = NoRow THEN "BAD_REQUEST" ELSE "ok"

update_member_guard(member) ==
    IF member = NoRow THEN "BAD_REQUEST"
    ELSE IF member.role = "owner" THEN "BAD_REQUEST"
    ELSE "ok"

um_get(p) ==
    LET c == calls[p] IN
    /\ At(p, "um_get")
    /\ \E member \in get_space_user_record(c.target, c.space_id) :
        calls' = [calls EXCEPT ![p] =
                    IF update_member_guard(member) = "ok"
                    THEN [c EXCEPT !.pc = "um_update", !.member = member]
                    ELSE Finish(c, update_member_guard(member))]
    /\ UNCHANGED <<db, sync, next_id, ncalls>>

\* db.update(table, id, fields) on spaces_users
update_spaces_users(id, role) ==
    {IF r.id = id THEN [r EXCEPT !.role = role] ELSE r : r \in spaces_users}

RowExists(id) == \E r \in spaces_users : r.id = id

\* db.update('spaces_users', member.id, data); with the row gone nothing is
\* returned and member.user_id in the next link is a TypeError
um_update(p) ==
    LET c == calls[p] IN
    /\ At(p, "um_update")
    /\ spaces_users' = update_spaces_users(c.member.id, c.data.role)
    /\ calls' = [calls EXCEPT ![p] =
                    IF RowExists(c.member.id)
                    THEN Goto(Wrote(c, "spaces_users"), "um_ids")
                    ELSE Finish(c, "ERROR")]
    /\ UNCHANGED <<spaces, spaces_invites, items, keychain, sync, next_id, ncalls>>

um_ids(p) ==
    LET c == calls[p] IN
    /\ At(p, "um_ids")
    /\ calls' = [calls EXCEPT ![p] =
                    [c EXCEPT !.pc = "um_sync",
                              !.user_ids = get_space_user_ids(c.space_id)]]
    /\ UNCHANGED <<db, sync, next_id, ncalls>>

um_sync(p) ==
    LET c == calls[p] IN
    /\ At(p, "um_sync")
    /\ sync' = add_record(c.id, c.user_ids, c.user_id, "space", c.space_id, "edit")
    /\ calls' = [calls EXCEPT ![p] = Finish(c, "ok")]
    /\ UNCHANGED <<db, next_id, ncalls>>

(* ------------------------------------------------------------------ *)
(* delete_member (space.js 307-334)                                   *)
(* ------------------------------------------------------------------ *)

start_delete_member(p, U, S, M) ==
    /\ Free(p)
    /\ \E u \in U, s \in S, m \in M :
        Begin(p, "delete_member", "dm_check", u, s, None, m, NoData)
    /\ UNCHANGED <<db, sync, next_id>>

\* delete_member letting every caller through
dm_check_any(p) ==
    LET c == calls[p] IN
    /\ At(p, "dm_check")
    /\ \E su \in get_space_user_record(c.user_id, c.space_id) :
        calls' = [calls EXCEPT ![p] =
                    [c EXCEPT !.pc = "dm_get",
                              !.has_perm = user_has_permission(su, "delete_space_member")]]
    /\ UNCHANGED <<db, sync, next_id, ncalls>>

\* user_has_permission(...delete_space_member), then the self-removal escape
dm_check(p) ==
    LET c == calls[p] IN
    /\ At(p, "dm_check")
    /\ \E su \in get_space_user_record(c.user_id, c.space_id) :
        LET has_perm == user_has_permission(su, "delete_space_member") IN
        calls' = [calls EXCEPT ![p] =
                    IF ~has_perm /\ c.user_id # c.target
                    THEN Finish(c, "FORBIDDEN")
                    ELSE [c EXCEPT !.pc = "dm_get", !.has_perm = has_perm]]
    /\ UNCHANGED <<db, sync, next_id, ncalls>>

\* the guard of delete_member on the record it read: member.role of a
\* missing record is a TypeError
delete_member_guard_none(member) ==
    IF member = NoRow THEN "ERROR" ELSE "ok"

delete_member_guard(member) ==
    IF member = NoRow THEN "ERROR"
    ELSE IF member.role = "owner" THEN "BAD_REQUEST"
    ELSE "ok"

dm_get(p) ==
    LET c == calls[p] IN
    /\ At(p, "dm_get")
    /\ \E member \in get_space_user_record(c.target, c.space_id) :
        calls' = [calls EXCEPT ![p] =
                    IF delete_member_guard(member) = "ok"
                    THEN [c EXCEPT !.pc = "dm_delete", !.member = member]
                    ELSE Finish(c, delete_member_guard(member))]
    /\ UNCHANGED <<db, sync, next_id, ncalls>>

\* db.delete('spaces_users', member.id)
dm_delete(p) ==
    LET c == calls[p] IN
    /\ At(p, "dm_delete")
    /\ spaces_users' = {r \in spaces_users : r.id # c.member.id}
    /\ calls' = [calls EXCEPT ![p] = Goto(Wrote(c, "spaces_users"), "dm_ids")]
    /\ UNCHANGED <<spaces, spaces_invites, items, keychain, sync, next_id, ncalls>>

\* get_space_user_ids, then Promise.all of three calls in flight together
dm_ids(p) ==
    LET c == calls[p] IN
    /\ At(p, "dm_ids")
    /\ calls' = [calls EXCEPT ![p] =
                    [c EXCEPT !.pc = "dm_all",
                              !.user_ids = get_space_user_ids(c.space_id),
                              !.pending = {"keychain", "edit", "unshare"}]]
    /\ UNCHANGED <<db, sync, next_id, ncalls>>

\* one of the calls of a Promise.all completes; the chain goes on to `next`
\* (or ends) when it was the last one
Settle(c, what, next) ==
    IF c.pending = {what}
    THEN IF next = "done" THEN Finish([c EXCEPT !.pending = {}], "ok")
         ELSE [c EXCEPT !.pending = {}, !.pc = next]
    ELSE [c EXCEPT !.pending = @ \ {what}]

\* keychain_model.delete_by_user_item(member_user_id, space_id)
delete_by_user_item(user_id, item_id) ==
    {k \in keychain : ~(k.user_id = user_id /\ k.item_id = item_id)}

dm_keychain(p) ==
    LET c == calls[p] IN
    /\ At(p, "dm_all") /\ "keychain" \in c.pending
    /\ keychain' = delete_by_user_item(c.target, c.space_id)
    /\ calls' = [calls EXCEPT ![p] = Settle(Wrote(c, "keychain"), "keychain", "done")]
    /\ UNCHANGED <<spaces, spaces_users, spaces_invites, items, sync, next_id, ncalls>>

dm_edit(p) ==
    LET c == calls[p] IN
    /\ At(p, "dm_all") /\ "edit" \in c.pending
    /\ sync' = add_record(c.id, c.user_ids, c.user_id, "space", c.space_id, "edit")
    /\ calls' = [calls EXCEPT ![p] = Settle(c, "edit", "done")]
    /\ UNCHANGED <<db, next_id, ncalls>>

dm_unshare(p) ==
    LET c == calls[p] IN
    /\ At(p, "dm_all") /\ "unshare" \in c.pending
    /\ sync' = add_record(c.id, Only(c.target), c.user_id, "space", c.space_id, "unshare")
    /\ calls' = [calls EXCEPT ![p] = Settle(c, "unshare", "done")]
    /\ UNCHANGED <<db, next_id, ncalls>>

(* ------------------------------------------------------------------ *)
(* set_owner (space.js 336-373)                                       *)
(* ------------------------------------------------------------------ *)

start_set_owner(p, U, S, M) ==
    /\ Free(p)
    /\ \E u \in U, s \in S, n \in M :
        Begin(p, "set_owner", "so_check", u, s, None, n, NoData)
    /\ UNCHANGED <<db, sync, next_id>>

\* permissions_check(set_space_owner), then Promise.all of three reads
so_check(p) ==
    LET c == calls[p] IN
    /\ At(p, "so_check")
    /\ \E su \in get_space_user_record(c.user_id, c.space_id) :
        calls' = [calls EXCEPT ![p] =
                    IF permissions_check(su, "set_space_owner") = "ok"
                    THEN [c EXCEPT !.pc = "so_reads",
                                   !.pending = {"space", "cur", "new"}]
                    ELSE Finish(c, "FORBIDDEN")]
    /\ UNCHANGED <<db, sync, next_id, ncalls>>

so_get_space(p) ==
    LET c == calls[p] IN
    /\ At(p, "so_reads") /\ "space" \in c.pending
    /\ calls' = [calls EXCEPT ![p] =
                    Settle([c EXCEPT !.space = get_by_id(c.space_id)],
                           "space", "so_update")]
    /\ UNCHANGED <<db, sync, next_id, ncalls>>

so_get_cur(p) ==
    LET c == calls[p] IN
    /\ At(p, "so_reads") /\ "cur" \in c.pending
    /\ \E m \in get_space_user_record(c.user_id, c.space_id) :
        calls' = [calls EXCEPT ![p] =
                    Settle([c EXCEPT !.cur_owner_member = m], "cur", "so_update")]
    /\ UNCHANGED <<db, sync, next_id, ncalls>>

so_get_new(p) ==
    LET c == calls[p] IN
    /\ At(p, "so_reads") /\ "new" \in c.pending
    /\ \E m \in get_space_user_record(c.target, c.space_id) :
        calls' = [calls EXCEPT ![p] =
                    Settle([c EXCEPT !.new_owner_member = m], "new", "so_update")]
    /\ UNCHANGED <<db, sync, next_id, ncalls>>

\* the guards of the .spread without the one on the new owner's record
set_owner_guard_no_new(space, cur_owner_member, new_owner_member) ==
    IF ~space.exists THEN "NOT_FOUND"
    ELSE IF cur_owner_member = NoRow THEN "NOT_FOUND"
    ELSE "ok"

\* the three not_found guards of the .spread
set_owner_guard(space, cur_owner_member, new_owner_member) ==
    IF ~space.exists THEN "NOT_FOUND"
    ELSE IF cur_owner_member = NoRow THEN "NOT_FOUND"
    ELSE IF new_owner_member = NoRow THEN "NOT_FOUND"
    ELSE "ok"

\* space.user_id = new_user_id; db.update('spaces', space_id, {data: space});
\* then Promise.all of the two role updates
so_update(p) ==
    LET c == calls[p]
        ok == set_owner_guard(c.space, c.cur_owner_member, c.new_owner_member) = "ok"
        found == spaces[c.space_id].exists
    IN
    /\ At(p, "so_update")
    /\ spaces' = IF ok /\ found
                 THEN [spaces EXCEPT ![c.space_id] = Space(c.target, c.space.body)]
                 ELSE spaces
    /\ calls' = [calls EXCEPT ![p] =
                    IF ~ok THEN Finish(c, "NOT_FOUND")
                    ELSE [(IF found THEN Wrote(c, "spaces")
                           ELSE Missed(c, "spaces")) EXCEPT
                            !.pc = "so_roles",
                            !.space = IF found THEN Space(c.target, c.space.body)
                                      ELSE NoSpace,
                            !.pending = {"demote", "promote"}]]
    /\ UNCHANGED <<spaces_users, spaces_invites, items, keychain, sync, next_id, ncalls>>

\* db.update('spaces_users', cur_owner_member.id, {role: roles.admin})
so_demote(p) ==
    LET c == calls[p] IN
    /\ At(p, "so_roles") /\ "demote" \in c.pending
    /\ spaces_users' = update_spaces_users(c.cur_owner_member.id, "admin")
    /\ calls' = [calls EXCEPT ![p] = Settle(Wrote(c, "spaces_users"), "demote", "so_ids")]
    /\ UNCHANGED <<spaces, spaces_invites, items, keychain, sync, next_id, ncalls>>

\* db.update('spaces_users', new_owner_member.id, {role: roles.owner})
so_promote(p) ==
    LET c == calls[p] IN
    /\ At(p, "so_roles") /\ "promote" \in c.pending
    /\ spaces_users' = update_spaces_users(c.new_owner_member.id, "owner")
    /\ calls' = [calls EXCEPT ![p] = Settle(Wrote(c, "spaces_users"), "promote", "so_ids")]
    /\ UNCHANGED <<spaces, spaces_invites, items, keychain, sync, next_id, ncalls>>

so_ids(p) ==
    LET c == calls[p] IN
    /\ At(p, "so_ids")
    /\ calls' = [calls EXCEPT ![p] =
                    [c EXCEPT !.pc = "so_sync",
                              !.user_ids = get_space_user_ids(c.space_id)]]
    /\ UNCHANGED <<db, sync, next_id, ncalls>>

\* add_record, then space.data.sync_ids = sync_ids (a TypeError when
\* db.update returned no row)
so_sync(p) ==
    LET c == calls[p] IN
    /\ At(p, "so_sync")
    /\ sync' = add_record(c.id, c.user_ids, c.user_id, "space", c.space_id, "edit")
    /\ calls' = [calls EXCEPT ![p] =
                    Finish(c, IF c.space.exists THEN "ok" ELSE "ERROR")]
    /\ UNCHANGED <<db, next_id, ncalls>>

(* ------------------------------------------------------------------ *)
(* The generic item operations, bound to notes and boards             *)
(* ------------------------------------------------------------------ *)

\* the permission each factory is bound with for a note or a board
ItemPermission(kind, item_id) ==
    IF item_id \in NoteIds
    THEN (CASE kind = "add" -> "add_note" [] kind = "edit" -> "edit_note"
            [] kind = "delete" -> "delete_note")
    ELSE (CASE kind = "add" -> "add_board" [] kind = "edit" -> "edit_board"
            [] kind = "delete" -> "delete_board")

RECURSIVE SumOver(_, _)
SumOver(f, S) ==
    IF S = {} THEN 0
    ELSE LET x == CHOOSE y \in S : TRUE IN f[x] + SumOver(f, S \ {x})

\* the number of sync ids an add_record call returns
Count(user_ids) == SumOver(user_ids, Users)

(* ---- simple_add (space.js 524-543) ---- *)

start_simple_add(p, U, I, S, K) ==
    /\ Free(p)
    /\ \E u \in U, i \in I, s \in S, k \in K :
        Begin(p, "simple_add", "sa_check", u, s, i, None,
              [NoData EXCEPT !.user_id = u, !.space_id = s, !.keys = k])
    /\ UNCHANGED <<db, sync, next_id>>

sa_check(p) ==
    LET c == calls[p] IN
    /\ At(p, "sa_check")
    /\ \E su \in get_space_user_record(c.user_id, c.data.space_id) :
        calls' = [calls EXCEPT ![p] =
                    IF permissions_check(su, ItemPermission("add", c.item_id)) = "ok"
                    THEN Goto(c, "sa_upsert") ELSE Finish(c, "FORBIDDEN")]
    /\ UNCHANGED <<db, sync, next_id, ncalls>>

\* db.upsert(sync_table, make_item_fn(data), 'id')
sa_upsert(p) ==
    LET c == calls[p] IN
    /\ At(p, "sa_upsert")
    /\ items' = [items EXCEPT ![c.item_id] =
                    Item(c.data.space_id, c.data.user_id, c.data.keys)]
    /\ calls' = [calls EXCEPT ![p] = Goto(Wrote(c, "items"), "sa_ids")]
    /\ UNCHANGED <<spaces, spaces_users, spaces_invites, keychain, sync, next_id, ncalls>>

sa_ids(p) ==
    LET c == calls[p] IN
    /\ At(p, "sa_ids")
    /\ calls' = [calls EXCEPT ![p] =
                    [c EXCEPT !.pc = "sa_sync",
                              !.user_ids = get_space_user_ids(c.data.space_id)]]
    /\ UNCHANGED <<db, sync, next_id, ncalls>>

sa_sync(p) ==
    LET c == calls[p] IN
    /\ At(p, "sa_sync")
    /\ sync' = add_record(c.id, c.user_ids, c.user_id, ItemType(c.item_id),
                          c.item_id, "add")
    /\ calls' = [calls EXCEPT ![p] =
                    Finish([c EXCEPT !.sync_ids = Count(c.user_ids)], "ok")]
    /\ UNCHANGED <<db, next_id, ncalls>>

(* ---- simple_edit (space.js 549-577) ---- *)

\* the payload carries its own user_id and space_id, which are overwritten;
\* the space_id it was given is kept in `target`
start_simple_edit(p, U, I, S, K) ==
    /\ Free(p)
    /\ \E u \in U, i \in I, s \in S, k \in K :
        Begin(p, "simple_edit", "se_get", u, None, i, s,
              [NoData EXCEPT !.user_id = u, !.space_id = s, !.keys = k])
    /\ UNCHANGED <<db, sync, next_id>>

\* simple_edit without the two "preserve" assignments
se_get_keep_payload(p) ==
    LET c == calls[p]
        item_data == item_get_by_id(c.item_id)
    IN
    /\ At(p, "se_get")
    /\ calls' = [calls EXCEPT ![p] =
                    IF ~item_data.exists THEN Finish(c, "NOT_FOUND")
                    ELSE [c EXCEPT !.pc = "se_check", !.item = item_data]]
    /\ UNCHANGED <<db, sync, next_id, ncalls>>

\* get_by_id(data.id); "preserve user_id/space_id"
se_get(p) ==
    LET c == calls[p]
        item_data == item_get_by_id(c.item_id)
    IN
    /\ At(p, "se_get")
    /\ calls' = [calls EXCEPT ![p] =
                    IF ~item_data.exists THEN Finish(c, "NOT_FOUND")
                    ELSE [c EXCEPT !.pc = "se_check", !.item = item_data,
                                   !.data.user_id = item_data.user_id,
                                   !.data.space_id = item_data.space_id]]
    /\ UNCHANGED <<db, sync, next_id, ncalls>>

se_check(p) ==
    LET c == calls[p] IN
    /\ At(p, "se_check")
    /\ \E su \in get_space_user_record(c.user_id, c.data.space_id) :
        calls' = [calls EXCEPT ![p] =
                    IF permissions_check(su, ItemPermission("edit", c.item_id)) = "ok"
                    THEN Goto(c, "se_update") ELSE Finish(c, "FORBIDDEN")]
    /\ UNCHANGED <<db, sync, next_id, ncalls>>

\* db.update(sync_table, data.id, make_item_fn(data, item_data)); with the
\* row gone nothing is returned and item.id in the next link is a TypeError
se_update(p) ==
    LET c == calls[p] IN
    /\ At(p, "se_update")
    /\ IF items[c.item_id].exists
       THEN /\ items' = [items EXCEPT ![c.item_id] =
                            Item(c.data.space_id, c.data.user_id, c.data.keys)]
            /\ calls' = [calls EXCEPT ![p] = Goto(Wrote(c, "items"), "se_ids")]
       ELSE /\ items' = items
            /\ calls' = [calls EXCEPT ![p] = Finish(c, "ERROR")]
    /\ UNCHANGED <<spaces, spaces_users, spaces_invites, keychain, sync, next_id, ncalls>>

se_ids(p) ==
    LET c == calls[p] IN
    /\ At(p, "se_ids")
    /\ calls' = [calls EXCEPT ![p] =
                    [c EXCEPT !.pc = "se_sync",
                              !.user_ids = get_space_user_ids(c.data.space_id)]]
    /\ UNCHANGED <<db, sync, next_id, ncalls>>

se_sync(p) ==
    LET c == calls[p] IN
    /\ At(p, "se_sync")
    /\ sync' = add_record(c.id, c.user_ids, c.user_id, ItemType(c.item_id),
                          c.item_id, "edit")
    /\ calls' = [calls EXCEPT ![p] =
                    Finish([c EXCEPT !.sync_ids = Count(c.user_ids)], "ok")]
    /\ UNCHANGED <<db, next_id, ncalls>>

(* ---- simple_delete (space.js 583-606) ---- *)

start_simple_delete(p, U, I) ==
    /\ Free(p)
    /\ \E u \in U, i \in I :
        Begin(p, "simple_delete", "sd_get", u, None, i, None, NoData)
    /\ UNCHANGED <<db, sync, next_id>>

\* what simple_delete does once the item is read: 'doesnt_exist' is caught
\* at the end of the chain and turned into an empty list
simple_delete_lookup_check(item_data) ==
    "check"

simple_delete_lookup(item_data) ==
    IF ~item_data.exists THEN "doesnt_exist" ELSE "check"

sd_get(p) ==
    LET c == calls[p]
        item_data == item_get_by_id(c.item_id)
    IN
    /\ At(p, "sd_get")
    /\ calls' = [calls EXCEPT ![p] =
                    IF simple_delete_lookup(item_data) = "doesnt_exist"
                    THEN Finish(c, "ok")
                    ELSE [c EXCEPT !.pc = "sd_check", !.item = item_data,
                                   !.space_id = item_data.space_id]]
    /\ UNCHANGED <<db, sync, next_id, ncalls>>

\* simple_delete deleting the row before its permission check is answered
sd_check_after_delete(p) ==
    LET c == calls[p] IN
    /\ At(p, "sd_check")
    /\ items' = [items EXCEPT ![c.item_id] = NoItem]
    /\ \E su \in get_space_user_record(c.user_id, c.space_id) :
        calls' = [calls EXCEPT ![p] =
                    IF permissions_check(su, ItemPermission("delete", c.item_id)) = "ok"
                    THEN Goto(Wrote(c, "items"), "sd_ids")
                    ELSE Finish(Wrote(c, "items"), "FORBIDDEN")]
    /\ UNCHANGED <<spaces, spaces_users, spaces_invites, keychain, sync, next_id, ncalls>>

\* simple_delete issuing its delete record as soon as the check has passed
sd_check_announce(p) ==
    LET c == calls[p] IN
    /\ At(p, "sd_check")
    /\ \E su \in get_space_user_record(c.user_id, c.space_id) :
        IF permissions_check(su, ItemPermission("delete", c.item_id)) = "ok"
        THEN /\ sync' = add_record(c.id, get_space_user_ids(c.space_id), c.user_id,
                                   ItemType(c.item_id), c.item_id, "delete")
             /\ calls' = [calls EXCEPT ![p] = Goto(c, "sd_delete")]
        ELSE /\ sync' = sync
             /\ calls' = [calls EXCEPT ![p] = Finish(c, "FORBIDDEN")]
    /\ UNCHANGED <<db, next_id, ncalls>>

sd_check(p) ==
    LET c == calls[p] IN
    /\ At(p, "sd_check")
    /\ \E su \in get_space_user_record(c.user_id, c.space_id) :
        calls' = [calls EXCEPT ![p] =
                    IF permissions_check(su, ItemPermission("delete", c.item_id)) = "ok"
                    THEN Goto(c, "sd_delete") ELSE Finish(c, "FORBIDDEN")]
    /\ UNCHANGED <<db, sync, next_id, ncalls>>

\* db.delete(sync_table, item_id)
sd_delete(p) ==
    LET c == calls[p] IN
    /\ At(p, "sd_delete")
    /\ items' = [items EXCEPT ![c.item_id] = NoItem]
    /\ calls' = [calls EXCEPT ![p] = Goto(Wrote(c, "items"), "sd_ids")]
    /\ UNCHANGED <<spaces, spaces_users, spaces_invites, keychain, sync, next_id, ncalls>>

sd_ids(p) ==
    LET c == calls[p] IN
    /\ At(p, "sd_ids")
    /\ calls' = [calls EXCEPT ![p] =
                    [c EXCEPT !.pc = "sd_sync",
                              !.user_ids = get_space_user_ids(c.space_id)]]
    /\ UNCHANGED <<db, sync, next_id, ncalls>>

sd_sync(p) ==
    LET c == calls[p] IN
    /\ At(p, "sd_sync")
    /\ sync' = add_record(c.id, c.user_ids, c.user_id, ItemType(c.item_id),
                          c.item_id, "delete")
    /\ calls' = [calls EXCEPT ![p] =
                    Finish([c EXCEPT !.sync_ids = Count(c.user_ids)], "ok")]
    /\ UNCHANGED <<db, next_id, ncalls>>

(* ---- simple_move_space (space.js 612-682) ---- *)

start_simple_move_space(p, U, I, S, K) ==
    /\ Free(p)
    /\ \E u \in U, i \in I, s \in S, k \in K :
        Begin(p, "simple_move_space", "mv_get", u, None, i, None,
              [NoData EXCEPT !.space_id = s, !.keys = k])
    /\ UNCHANGED <<db, sync, next_id>>

\* "the jackass catcher": what the first link does with the item it read
simple_move_space_lookup_move(cur_item_data, new_space_id) ==
    IF ~cur_item_data.exists THEN "NOT_FOUND" ELSE "move"

simple_move_space_lookup(cur_item_data, new_space_id) ==
    IF ~cur_item_data.exists THEN "NOT_FOUND"
    ELSE IF cur_item_data.space_id = new_space_id THEN "same_space"
    ELSE "move"

\* get_by_id(item_id); same_space is caught at the end of the chain and
\* answered with {data: item, sync_ids: []}; otherwise the two permission
\* checks are issued together
mv_get(p) ==
    LET c == calls[p]
        cur_item_data == item_get_by_id(c.item_id)
        what == simple_move_space_lookup(cur_item_data, c.data.space_id)
        read == [c EXCEPT !.item = cur_item_data,
                          !.old_space_id = cur_item_data.space_id,
                          !.new_space_id = c.data.space_id]
    IN
    /\ At(p, "mv_get")
    /\ calls' = [calls EXCEPT ![p] =
                    CASE what = "NOT_FOUND" -> Finish(c, "NOT_FOUND")
                      [] what = "same_space" -> Finish(read, "ok")
                      [] OTHER -> [read EXCEPT !.pc = "mv_checks",
                                        !.pending = {"can_delete", "can_add"}]]
    /\ UNCHANGED <<db, sync, next_id, ncalls>>

\* permissions_check(user_id, old_space_id, perms_delete)
mv_can_delete(p) ==
    LET c == calls[p] IN
    /\ At(p, "mv_checks") /\ "can_delete" \in c.pending
    /\ \E su \in get_space_user_record(c.user_id, c.old_space_id) :
        calls' = [calls EXCEPT ![p] =
                    IF permissions_check(su, ItemPermission("delete", c.item_id)) = "ok"
                    THEN Settle(c, "can_delete", "mv_update")
                    ELSE Finish(c, "FORBIDDEN")]
    /\ UNCHANGED <<db, sync, next_id, ncalls>>

\* the add check made on the space the item is leaving
mv_can_add_on_source(p) ==
    LET c == calls[p] IN
    /\ At(p, "mv_checks") /\ "can_add" \in c.pending
    /\ \E su \in get_space_user_record(c.user_id, c.old_space_id) :
        calls' = [calls EXCEPT ![p] =
                    IF permissions_check(su, ItemPermission("add", c.item_id)) = "ok"
                    THEN Settle(c, "can_add", "mv_update")
                    ELSE Finish(c, "FORBIDDEN")]
    /\ UNCHANGED <<db, sync, next_id, ncalls>>

\* permissions_check(user_id, new_space_id, perms_add)
mv_can_add(p) ==
    LET c == calls[p] IN
    /\ At(p, "mv_checks") /\ "can_add" \in c.pending
    /\ \E su \in get_space_user_record(c.user_id, c.new_space_id) :
        calls' = [calls EXCEPT ![p] =
                    IF permissions_check(su, ItemPermission("add", c.item_id)) = "ok"
                    THEN Settle(c, "can_add", "mv_update")
                    ELSE Finish(c, "FORBIDDEN")]
    /\ UNCHANGED <<db, sync, next_id, ncalls>>

\* db.update(sync_table, item_id, {space_id: new_space_id, data: cur_item_data})
\* with cur_item_data.space_id and .keys replaced; then the two member lists
\* are read together.  With the row gone db.update returns nothing, the
\* fan-out still runs and item.sync_ids = ... is a TypeError.
mv_update(p) ==
    LET c == calls[p]
        moved == Item(c.new_space_id, c.item.user_id, c.data.keys)
        found == items[c.item_id].exists
    IN
    /\ At(p, "mv_update")
    /\ items' = IF found THEN [items EXCEPT ![c.item_id] = moved] ELSE items
    /\ calls' = [calls EXCEPT ![p] =
                    [(IF found THEN Wrote(c, "items") ELSE Missed(c, "items")) EXCEPT
                        !.pc = "mv_ids",
                        !.item = IF found THEN moved ELSE NoItem,
                        !.pending = {"old_ids", "new_ids"}]]
    /\ UNCHANGED <<spaces, spaces_users, spaces_invites, keychain, sync, next_id, ncalls>>

mv_old_ids(p) ==
    LET c == calls[p] IN
    /\ At(p, "mv_ids") /\ "old_ids" \in c.pending
    /\ calls' = [calls EXCEPT ![p] =
                    Settle([c EXCEPT !.old_user_ids = get_space_user_ids(c.old_space_id)],
                           "old_ids", "mv_sync")]
    /\ UNCHANGED <<db, sync, next_id, ncalls>>

mv_new_ids(p) ==
    LET c == calls[p] IN
    /\ At(p, "mv_ids") /\ "new_ids" \in c.pending
    /\ calls' = [calls EXCEPT ![p] =
                    Settle([c EXCEPT !.new_user_ids = get_space_user_ids(c.new_space_id)],
                           "new_ids", "mv_sync")]
    /\ UNCHANGED <<db, sync, next_id, ncalls>>

\* sync_model.split_same_users: the two lists partitioned as sets
split_same_users(old_user_ids, new_user_ids) ==
    [same |-> [u \in Users |->
                IF old_user_ids[u] > 0 /\ new_user_ids[u] > 0 THEN 1 ELSE 0],
     old |-> [u \in Users |->
                IF old_user_ids[u] > 0 /\ new_user_ids[u] = 0 THEN 1 ELSE 0],
     new |-> [u \in Users |->
                IF old_user_ids[u] = 0 /\ new_user_ids[u] > 0 THEN 1 ELSE 0]]

\* the action_map of simple_move_space
action_map_swapped(partition) ==
    CASE partition = "same" -> "edit"
      [] partition = "old" -> "add"
      [] partition = "new" -> "delete"

action_map(partition) ==
    CASE partition = "same" -> "edit"
      [] partition = "old" -> "delete"
      [] partition = "new" -> "add"

\* sync_model.add_records_from_split: one add_record call per partition
add_records_from_split(call, user_id, split_users, type, item_id) ==
    LET rec(part) == [call |-> call, to |-> split_users[part], actor |-> user_id,
                      type |-> type, item_id |-> item_id,
                      action |-> action_map(part)]
    IN  sync \o <<rec("same"), rec("old"), rec("new")>>

\* whether the factory was given a post_move_fn: the board model passes one
\* (it moves the board's notes along), the note model does not
HasPostMove(item_id) == item_id \in BoardIds

mv_sync(p) ==
    LET c == calls[p]
        split_users == split_same_users(c.old_user_ids, c.new_user_ids)
        n == Count(split_users.same) + Count(split_users.old) + Count(split_users.new)
        done == [c EXCEPT !.sync_ids = n]
    IN
    /\ At(p, "mv_sync")
    /\ sync' = add_records_from_split(c.id, c.user_id, split_users,
                                      ItemType(c.item_id), c.item_id)
    /\ calls' = [calls EXCEPT ![p] =
                    IF ~c.item.exists THEN Finish(done, "ERROR")
                    ELSE IF HasPostMove(c.item_id) THEN Goto(done, "mv_post")
                    ELSE Finish(done, "ok")]
    /\ UNCHANGED <<db, next_id, ncalls>>

\* post_move_fn(user_id, item, old_space_id, new_space_id); its sync ids are
\* appended
mv_post(p) ==
    LET c == calls[p] IN
    /\ At(p, "mv_post")
    /\ calls' = [calls EXCEPT ![p] = Finish([c EXCEPT !.hooked = TRUE], "ok")]
    /\ UNCHANGED <<db, sync, next_id, ncalls>>

(* ------------------------------------------------------------------ *)
(* del: the space delete cascade (space.js 419-506)                   *)
(* ------------------------------------------------------------------ *)

start_del(p, U, S) ==
    /\ Free(p)
    /\ \E u \in U, s \in S :
        Begin(p, "del", "del_exists", u, s, None, None, NoData)
    /\ UNCHANGED <<db, sync, next_id>>

\* get_by_id(space_id, {raw: true}); 'space_missing' is caught at the end of
\* the chain and answered with []
del_exists(p) ==
    LET c == calls[p] IN
    /\ At(p, "del_exists")
    /\ calls' = [calls EXCEPT ![p] =
                    IF ~get_by_id(c.space_id).exists THEN Finish(c, "ok")
                    ELSE [c EXCEPT !.pc = "del_check", !.space = get_by_id(c.space_id)]]
    /\ UNCHANGED <<db, sync, next_id, ncalls>>

del_check(p) ==
    LET c == calls[p] IN
    /\ At(p, "del_check")
    /\ \E su \in get_space_user_record(c.user_id, c.space_id) :
        calls' = [calls EXCEPT ![p] =
                    IF permissions_check(su, "delete_space") = "ok"
                    THEN Goto(c, "del_affected") ELSE Finish(c, "FORBIDDEN")]
    /\ UNCHANGED <<db, sync, next_id, ncalls>>

\* the member ids captured for the final record
del_capture_none(space_id) ==
    NoUsers

del_capture(space_id) ==
    get_space_user_ids(space_id)

\* affected_users = user_ids; then the two SELECTs are issued together
del_affected(p) ==
    LET c == calls[p] IN
    /\ At(p, "del_affected")
    /\ calls' = [calls EXCEPT ![p] =
                    [c EXCEPT !.pc = "del_select",
                              !.affected_users = del_capture(c.space_id),
                              !.pending = {"notes", "boards"}]]
    /\ UNCHANGED <<db, sync, next_id, ncalls>>

SubIdle == [pc |-> "none", space_id |-> None, user_ids |-> NoUsers]

SubsSettled(sub) == \A i \in ItemIds : sub[i].pc \in {"none", "done", "failed"}

\* once every delete_note / delete_board has settled the chain goes on, or
\* rejects with the error of a failed one
AfterSubs(c) ==
    IF c.pc = "del_items" /\ SubsSettled(c.sub)
    THEN IF \E i \in ItemIds : c.sub[i].pc = "failed"
         THEN Finish(c, "FORBIDDEN")
         ELSE Goto(c, "del_invites")
    ELSE c

\* SELECT id FROM notes / boards WHERE space_id = ...; with both lists read,
\* Promise.map starts a delete for every id (fewer than 8 are in flight)
Selected(c, ids, what) ==
    LET sel == [c EXCEPT !.sub =
                    [i \in ItemIds |->
                        IF i \in ids /\ items[i].exists /\ items[i].space_id = c.space_id
                        THEN [SubIdle EXCEPT !.pc = "get"] ELSE c.sub[i]]]
    IN  AfterSubs(Settle(sel, what, "del_items"))

del_select_notes(p) ==
    LET c == calls[p] IN
    /\ At(p, "del_select") /\ "notes" \in c.pending
    /\ calls' = [calls EXCEPT ![p] = Selected(c, NoteIds, "notes")]
    /\ UNCHANGED <<db, sync, next_id, ncalls>>

del_select_boards(p) ==
    LET c == calls[p] IN
    /\ At(p, "del_select") /\ "boards" \in c.pending
    /\ calls' = [calls EXCEPT ![p] = Selected(c, BoardIds, "boards")]
    /\ UNCHANGED <<db, sync, next_id, ncalls>>

\* note_model.delete_note / board_model.delete_board: a simple_delete-built
\* operation run for item i inside the cascade
SubAt(p, i, pc) == At(p, "del_items") /\ calls[p].sub[i].pc = pc

sub_get(p, i) ==
    LET c == calls[p]
        item_data == item_get_by_id(i)
    IN
    /\ SubAt(p, i, "get")
    /\ calls' = [calls EXCEPT ![p] =
                    AfterSubs([c EXCEPT !.sub[i] =
                        IF simple_delete_lookup(item_data) = "doesnt_exist"
                        THEN [@ EXCEPT !.pc = "done"]
                        ELSE [@ EXCEPT !.pc = "check",
                                       !.space_id = item_data.space_id]])]
    /\ UNCHANGED <<db, sync, next_id, ncalls>>

sub_check(p, i) ==
    LET c == calls[p] IN
    /\ SubAt(p, i, "check")
    /\ \E su \in get_space_user_record(c.user_id, c.sub[i].space_id) :
        calls' = [calls EXCEPT ![p] =
                    AfterSubs([c EXCEPT !.sub[i].pc =
                        IF permissions_check(su, ItemPermission("delete", i)) = "ok"
                        THEN "delete" ELSE "failed"])]
    /\ UNCHANGED <<db, sync, next_id, ncalls>>

sub_delete(p, i) ==
    LET c == calls[p] IN
    /\ SubAt(p, i, "delete")
    /\ items' = [items EXCEPT ![i] = NoItem]
    /\ calls' = [calls EXCEPT ![p] = [Wrote(c, "items") EXCEPT !.sub[i].pc = "ids"]]
    /\ UNCHANGED <<spaces, spaces_users, spaces_invites, keychain, sync, next_id, ncalls>>

sub_ids(p, i) ==
    LET c == calls[p] IN
    /\ SubAt(p, i, "ids")
    /\ calls' = [calls EXCEPT ![p] =
                    [c EXCEPT !.sub[i].pc = "sync",
                              !.sub[i].user_ids = get_space_user_ids(c.sub[i].space_id)]]
    /\ UNCHANGED <<db, sync, next_id, ncalls>>

sub_sync(p, i) ==
    LET c == calls[p] IN
    /\ SubAt(p, i, "sync")
    /\ sync' = add_record(c.id, c.sub[i].user_ids, c.user_id, ItemType(i), i, "delete")
    /\ calls' = [calls EXCEPT ![p] = AfterSubs([c EXCEPT !.sub[i].pc = "done"])]
    /\ UNCHANGED <<db, next_id, ncalls>>

\* get_space_invites(space_id)
get_space_invites(space_id) == {i \in spaces_invites : i.space_id = space_id}

\* user_model.get_by_emails: the accounts among the invited names
get_by_emails(usernames) == usernames \cap Users

\* the invites of the space are read and their accounts resolved; one
\* 'delete' record per resolved invite is then issued, all together
del_invites(p) ==
    LET c == calls[p]
        invites == get_space_invites(c.space_id)
        users == get_by_emails({i.to_user : i \in invites})
        resolved == {i \in invites : i.to_user \in users}
    IN
    /\ At(p, "del_invites")
    /\ calls' = [calls EXCEPT ![p] =
                    IF resolved = {} THEN Goto(c, "del_unshare_ids")
                    ELSE [c EXCEPT !.pc = "del_invite_sync", !.invites = resolved]]
    /\ UNCHANGED <<db, sync, next_id, ncalls>>

del_invite_sync(p) ==
    LET c == calls[p] IN
    /\ At(p, "del_invite_sync")
    /\ \E i \in c.invites :
        /\ sync' = add_record(c.id, Only(i.to_user), c.user_id, "invite", i.id, "delete")
        /\ calls' = [calls EXCEPT ![p] =
                        IF c.invites = {i}
                        THEN [c EXCEPT !.invites = {}, !.pc = "del_unshare_ids"]
                        ELSE [c EXCEPT !.invites = @ \ {i}]]
    /\ UNCHANGED <<db, next_id, ncalls>>

del_unshare_ids(p) ==
    LET c == calls[p] IN
    /\ At(p, "del_unshare_ids")
    /\ calls' = [calls EXCEPT ![p] =
                    [c EXCEPT !.pc = "del_unshare",
                              !.user_ids = get_space_user_ids(c.space_id)]]
    /\ UNCHANGED <<db, sync, next_id, ncalls>>

\* add_record(space_user_ids, ..., 'unshare'); then the two DELETEs are
\* issued together
del_unshare(p) ==
    LET c == calls[p] IN
    /\ At(p, "del_unshare")
    /\ sync' = add_record(c.id, c.user_ids, c.user_id, "space", c.space_id, "unshare")
    /\ calls' = [calls EXCEPT ![p] =
                    [c EXCEPT !.pc = "del_rows", !.pending = {"users", "invites"}]]
    /\ UNCHANGED <<db, next_id, ncalls>>

\* DELETE FROM spaces_users WHERE space_id = ...
del_spaces_users(p) ==
    LET c == calls[p] IN
    /\ At(p, "del_rows") /\ "users" \in c.pending
    /\ spaces_users' = {r \in spaces_users : r.space_id # c.space_id}
    /\ calls' = [calls EXCEPT ![p] =
                    Settle(Wrote(c, "spaces_users"), "users", "del_space")]
    /\ UNCHANGED <<spaces, spaces_invites, items, keychain, sync, next_id, ncalls>>

\* DELETE FROM spaces_invites WHERE space_id = ...
del_spaces_invites(p) ==
    LET c == calls[p] IN
    /\ At(p, "del_rows") /\ "invites" \in c.pending
    /\ spaces_invites' = {i \in spaces_invites : i.space_id # c.space_id}
    /\ calls' = [calls EXCEPT ![p] =
                    Settle(Wrote(c, "spaces_invites"), "invites", "del_space")]
    /\ UNCHANGED <<spaces, spaces_users, items, keychain, sync, next_id, ncalls>>

\* db.delete('spaces', space_id)
del_space(p) ==
    LET c == calls[p] IN
    /\ At(p, "del_space")
    /\ spaces' = [spaces EXCEPT ![c.space_id] = NoSpace]
    /\ calls' = [calls EXCEPT ![p] = Goto(Wrote(c, "spaces"), "del_keychain")]
    /\ UNCHANGED <<spaces_users, spaces_invites, items, keychain, sync, next_id, ncalls>>

\* keychain_model.get_by_item_id(space_id)
get_by_item_id(item_id) == {k \in keychain : k.item_id = item_id}

\* the final record addressed to the members the space has at that moment
del_record_current(c) ==
    add_record(c.id, get_space_user_ids(c.space_id), c.user_id, "space",
               c.space_id, "delete")

\* the final record of the cascade
del_record(c) ==
    add_record(c.id, c.affected_users, c.user_id, "space", c.space_id, "delete")

\* the entries are read; each is deleted and then announced, the entries
\* being handled together
del_keychain(p) ==
    LET c == calls[p]
        entries == get_by_item_id(c.space_id)
    IN
    /\ At(p, "del_keychain")
    /\ calls' = [calls EXCEPT ![p] =
                    IF entries = {} THEN Goto(c, "del_final")
                    ELSE [c EXCEPT !.pc = "del_entries", !.entries = entries]]
    /\ UNCHANGED <<db, sync, next_id, ncalls>>

\* db.delete('keychain', entry.id)
del_entry(p) ==
    LET c == calls[p] IN
    /\ At(p, "del_entries")
    /\ \E e \in c.entries :
        /\ keychain' = {k \in keychain : k.id # e.id}
        /\ calls' = [calls EXCEPT ![p] =
                        [Wrote(c, "keychain") EXCEPT !.entries = @ \ {e},
                                                     !.deleted = @ \cup {e}]]
    /\ UNCHANGED <<spaces, spaces_users, spaces_invites, items, sync, next_id, ncalls>>

\* add_record([entry.user_id], ..., 'keychain', entry.id, 'delete')
del_entry_sync(p) ==
    LET c == calls[p] IN
    /\ At(p, "del_entries")
    /\ \E e \in c.deleted :
        /\ sync' = add_record(c.id, Only(e.user_id), c.user_id, "keychain", e.id, "delete")
        /\ calls' = [calls EXCEPT ![p] =
                        IF c.entries = {} /\ c.deleted = {e}
                        THEN [c EXCEPT !.deleted = {}, !.pc = "del_final"]
                        ELSE [c EXCEPT !.deleted = @ \ {e}]]
    /\ UNCHANGED <<db, next_id, ncalls>>

\* add_record(affected_users, ..., 'space', space_id, 'delete')
del_final(p) ==
    LET c == calls[p] IN
    /\ At(p, "del_final")
    /\ sync' = del_record(c)
    /\ calls' = [calls EXCEPT ![p] =
                    Finish([c EXCEPT !.sync_ids = Count(c.affected_users)], "ok")]
    /\ UNCHANGED <<db, next_id, ncalls>>

(* ------------------------------------------------------------------ *)
(* permissions_check and user_has_permission as exported calls        *)
(* (space.js 36-59)                                                   *)
(* ------------------------------------------------------------------ *)

start_permissions_check(p, U, S, P) ==
    /\ Free(p)
    /\ \E u \in U, s \in S, perm \in P :
        Begin(p, "permissions_check", "pc_check", u, s, None, perm, NoData)
    /\ UNCHANGED <<db, sync, next_id>>

pc_check(p) ==
    LET c == calls[p] IN
    /\ At(p, "pc_check")
    /\ \E su \in get_space_user_record(c.user_id, c.space_id) :
        calls' = [calls EXCEPT ![p] =
                    Finish([c EXCEPT !.member = su], permissions_check(su, c.target))]
    /\ UNCHANGED <<db, sync, next_id, ncalls>>

start_user_has_permission(p, U, S, P) ==
    /\ Free(p)
    /\ \E u \in U, s \in S, perm \in P :
        Begin(p, "user_has_permission", "hp_check", u, s, None, perm, NoData)
    /\ UNCHANGED <<db, sync, next_id>>

hp_check(p) ==
    LET c == calls[p] IN
    /\ At(p, "hp_check")
    /\ \E su \in get_space_user_record(c.user_id, c.space_id) :
        calls' = [calls EXCEPT ![p] =
                    Finish([c EXCEPT !.member = su,
                                     !.has_perm = user_has_permission(su, c.target)],
                           "ok")]
    /\ UNCHANGED <<db, sync, next_id, ncalls>>

(* ------------------------------------------------------------------ *)
(* Specification of the space and member operations                   *)
(* ------------------------------------------------------------------ *)

add_steps(p) == add_upsert(p) \/ add_member(p) \/ add_sync(p)

edit_steps(p) ==
    edit_check(p) \/ edit_get(p) \/ edit_update(p) \/ edit_ids(p) \/ edit_sync(p)

update_member_steps(p) ==
    um_check(p) \/ um_get(p) \/ um_update(p) \/ um_ids(p) \/ um_sync(p)

delete_member_steps(p) ==
    \/ dm_check(p) \/ dm_get(p) \/ dm_delete(p) \/ dm_ids(p)
    \/ dm_keychain(p) \/ dm_edit(p) \/ dm_unshare(p)

set_owner_steps(p) ==
    \/ so_check(p) \/ so_get_space(p) \/ so_get_cur(p) \/ so_get_new(p)
    \/ so_update(p) \/ so_demote(p) \/ so_promote(p) \/ so_ids(p) \/ so_sync(p)

simple_add_steps(p) == sa_check(p) \/ sa_upsert(p) \/ sa_ids(p) \/ sa_sync(p)

simple_edit_steps(p) ==
    se_get(p) \/ se_check(p) \/ se_update(p) \/ se_ids(p) \/ se_sync(p)

simple_delete_steps(p) ==
    sd_get(p) \/ sd_check(p) \/ sd_delete(p) \/ sd_ids(p) \/ sd_sync(p)

simple_move_space_steps(p) ==
    \/ mv_get(p) \/ mv_can_delete(p) \/ mv_can_add(p) \/ mv_update(p)
    \/ mv_old_ids(p) \/ mv_new_ids(p) \/ mv_sync(p) \/ mv_post(p)

del_steps(p) ==
    \/ del_exists(p) \/ del_check(p) \/ del_affected(p)
    \/ del_select_notes(p) \/ del_select_boards(p)
    \/ \E i \in ItemIds :
        sub_get(p, i) \/ sub_check(p, i) \/ sub_delete(p, i) \/ sub_ids(p, i)
            \/ sub_sync(p, i)
    \/ del_invites(p) \/ del_invite_sync(p) \/ del_unshare_ids(p) \/ del_unshare(p)
    \/ del_spaces_users(p) \/ del_spaces_invites(p) \/ del_space(p)
    \/ del_keychain(p) \/ del_entry(p) \/ del_entry_sync(p) \/ del_final(p)

NextMembers ==
    \E p \in Procs :
        \/ start_add(p, {"u2", "u3"}, {"s1"}, {"v1"}) \/ add_steps(p)
        \/ start_update_member(p, {"u1", "u2"}, {"s1"}, {"u1", "u2"}, {"owner", "guest"})
        \/ update_member_steps(p)
        \/ start_delete_member(p, {"u1", "u2"}, {"s1"}, {"u1", "u2"})
        \/ delete_member_steps(p)
        \/ start_set_owner(p, {"u1", "u2"}, {"s1"}, Users) \/ set_owner_steps(p)

SpecMembers == Init /\ [][NextMembers]_vars

(* ---- space edits against ownership transfers ---- *)

NextOwner ==
    \E p \in Procs :
        \/ start_edit(p, {"u1", "u2"}, {"s1"}, {"v1", "v2"}) \/ edit_steps(p)
        \/ start_set_owner(p, {"u1", "u2"}, {"s1"}, {"u1", "u2"}) \/ set_owner_steps(p)

SpecOwner == Init /\ [][NextOwner]_vars

(* ---- the permission checks, with roles changing under them ---- *)

NextPerms ==
    \E p \in Procs :
        \/ start_permissions_check(p, Users, SpaceIds, permissions) \/ pc_check(p)
        \/ start_user_has_permission(p, Users, SpaceIds, permissions) \/ hp_check(p)
        \/ start_update_member(p, {"u1"}, {"s1"}, {"u2"}, roles)
        \/ update_member_steps(p)

SpecPerms == Init /\ [][NextPerms]_vars

(* ---- the item operations, membership fixed ---- *)

NextItems ==
    \E p \in Procs :
        \/ start_simple_add(p, Users, ItemIds, {"s1", "s2"}, {"kb"})
        \/ simple_add_steps(p)
        \/ start_simple_edit(p, Users, ItemIds, {"s2"}, {"kb"})
        \/ simple_edit_steps(p)
        \/ start_simple_delete(p, Users, ItemIds)
        \/ simple_delete_steps(p)
        \/ start_simple_move_space(p, Users, ItemIds, SpaceIds, {"kb"})
        \/ simple_move_space_steps(p)

SpecItems == Init /\ [][NextItems]_vars

(* ---- the delete cascade against item and member operations ---- *)

NextDelete ==
    \E p \in Procs :
        \/ start_del(p, {"u1", "u2"}, {"s1", "s3"}) \/ del_steps(p)
        \/ start_simple_add(p, {"u2"}, ItemIds, {"s1"}, {"kb"})
        \/ simple_add_steps(p)
        \/ start_simple_move_space(p, {"u2"}, ItemIds, {"s1", "s2"}, {"kb"})
        \/ simple_move_space_steps(p)
        \/ start_simple_delete(p, {"u1"}, ItemIds)
        \/ simple_delete_steps(p)
        \/ start_delete_member(p, {"u1", "u2"}, {"s1"}, {"u2"})
        \/ delete_member_steps(p)

SpecDelete == Init /\ [][NextDelete]_vars

(* ---- every operation ---- *)

Next ==
    \E p \in Procs :
        \/ start_add(p, {"u3"}, {"s1", "s3"}, {"v2"}) \/ add_steps(p)
        \/ start_edit(p, {"u2", "u3"}, {"s1"}, {"v2"}) \/ edit_steps(p)
        \/ start_update_member(p, {"u1", "u2", "u3"}, {"s1"}, {"u2"}, {"guest"})
        \/ update_member_steps(p)
        \/ start_delete_member(p, {"u1", "u3"}, {"s1"}, {"u2"})
        \/ delete_member_steps(p)
        \/ start_set_owner(p, {"u1", "u2"}, {"s1"}, {"u2"}) \/ set_owner_steps(p)
        \/ start_simple_add(p, {"u2", "u3"}, {"n1"}, {"s1", "s2"}, {"kb"})
        \/ simple_add_steps(p)
        \/ start_simple_edit(p, {"u2", "u3"}, {"n1"}, {"s2"}, {"kb"})
        \/ simple_edit_steps(p)
        \/ start_simple_delete(p, {"u2", "u3"}, ItemIds)
        \/ simple_delete_steps(p)
        \/ start_simple_move_space(p, {"u2", "u3"}, ItemIds, {"s1", "s2"}, {"kb"})
        \/ simple_move_space_steps(p)
        \/ start_del(p, {"u1", "u2"}, {"s1", "s3"}) \/ del_steps(p)
        \/ start_permissions_check(p, {"u2", "u3"}, {"s1"}, {"edit_space"})
        \/ pc_check(p)
        \/ start_user_has_permission(p, {"u2", "u3"}, {"s1"}, {"edit_space"})
        \/ hp_check(p)

Spec == Init /\ [][Next]_vars

(* ------------------------------------------------------------------ *)
(* Vocabulary of the properties                                       *)
(* ------------------------------------------------------------------ *)

\* the emissions of one call, in the order it made them
Records(call) == SelectSeq(sync, LAMBDA r : r.call = call)

RECURSIVE SentIn(_, _, _)
\* how many records of sequence R with action `action` are addressed to u
SentIn(R, u, action) ==
    IF R = <<>> THEN 0
    ELSE (IF Head(R).action = action THEN Head(R).to[u] ELSE 0)
            + SentIn(Tail(R), u, action)

Sent(call, u, action) == SentIn(Records(call), u, action)

Owners(space_id) ==
    {r \in spaces_users : r.space_id = space_id /\ r.role = "owner"}

MemberRows(user_id, space_id) ==
    {r \in spaces_users : r.space_id = space_id /\ r.user_id = user_id}

\* user_id holds `permission` on the space by some membership record
Holds(user_id, space_id, permission) ==
    \E r \in MemberRows(user_id, space_id) : permission \in role_permissions(r.role)

Done(p, op) == calls[p].op = op /\ calls[p].pc = "done"

\* process p takes the step that ends its call
Ends(p, pc) == calls[p].pc = pc /\ calls'[p].pc = "done"

(* ------------------------------------------------------------------ *)
(* Properties                                                         *)
(* ------------------------------------------------------------------ *)

\* C1: in every reachable state every existing space has exactly one
\* membership record with role owner.
C1_ExactlyOneOwner ==
    \A s \in SpaceIds : spaces[s].exists => Cardinality(Owners(s)) = 1

\* C2: a permissions_check for a user with no membership record in the
\* space fails FORBIDDEN, and user_has_permission returns false.
C2_NoMembershipForbidden ==
    [][\A p \in Procs :
        MemberRows(calls[p].user_id, calls[p].space_id) = {} =>
            /\ Ends(p, "pc_check") => calls'[p].result = "FORBIDDEN"
            /\ Ends(p, "hp_check") =>
                    calls'[p].result = "ok" /\ calls'[p].has_perm = FALSE]_vars

\* C2 witness: both calls have answered for a user without a record.
C2_Witness ==
    \E p, q \in Procs :
        /\ Done(p, "permissions_check") /\ calls[p].member = NoRow
        /\ calls[p].result = "FORBIDDEN"
        /\ Done(q, "user_has_permission") /\ calls[q].member = NoRow
        /\ calls[q].has_perm = FALSE
        /\ MemberRows(calls[p].user_id, calls[p].space_id) = {}
        /\ MemberRows(calls[q].user_id, calls[q].space_id) = {}

C4_ForbiddenNoEffect ==
    \A p \in Procs :
        LET c == calls[p] IN
        (/\ c.pc = "done" /\ c.result = "FORBIDDEN"
         /\ \A i \in ItemIds : c.sub[i].pc # "failed")
            => c.wrote = {} /\ Records(c.id) = <<>> /\ c.sync_ids = 0

\* C4 witness: an update_member refused for want of edit_space_member and a
\* space delete refused for want of delete_space, nothing written.
C4_Witness ==
    \E p, q \in Procs :
        /\ Done(p, "update_member") /\ calls[p].result = "FORBIDDEN"
        /\ Done(q, "del") /\ calls[q].result = "FORBIDDEN"
        /\ calls[p].wrote = {} /\ calls[q].wrote = {}
        /\ sync = <<>>

\* the records a move between spaces with member sets O and N owes user u
Owed(O, N, u, action) ==
    CASE action = "edit" -> IF u \in O \cap N THEN 1 ELSE 0
      [] action = "delete" -> IF u \in O \ N THEN 1 ELSE 0
      [] action = "add" -> IF u \in N \ O THEN 1 ELSE 0
      [] OTHER -> 0

\* a finished, successful move of an item between two different spaces
Moved(p) ==
    /\ Done(p, "simple_move_space") /\ calls[p].result = "ok"
    /\ calls[p].old_space_id # calls[p].new_space_id

\* C5: a successful move between two spaces with member sets O and N issues
\* exactly one record per user of O \cup N (edit in both, delete only in O,
\* add only in N) and no other record for the item.
C5_MoveFanout ==
    \A p \in Procs :
        Moved(p) =>
            LET c == calls[p]
                O == Members(get_space_user_ids(c.old_space_id))
                N == Members(get_space_user_ids(c.new_space_id))
            IN  /\ \A u \in Users :
                    \A a \in {"add", "edit", "delete", "unshare"} :
                        Sent(c.id, u, a) = Owed(O, N, u, a)
                /\ \A k \in 1..Len(Records(c.id)) :
                    /\ Records(c.id)[k].item_id = c.item_id
                    /\ Records(c.id)[k].type = ItemType(c.item_id)

\* C5 witness: u2 moved note n1 from s1 {u1, u2} to s2 {u2, u3}.
C5_Witness ==
    \E p \in Procs :
        /\ Moved(p) /\ calls[p].item_id = "n1" /\ calls[p].user_id = "u2"
        /\ Members(get_space_user_ids("s1")) = {"u1", "u2"}
        /\ Members(get_space_user_ids("s2")) = {"u2", "u3"}
        /\ calls[p].old_space_id = "s1" /\ calls[p].new_space_id = "s2"
        /\ Sent(calls[p].id, "u2", "edit") = 1
        /\ Sent(calls[p].id, "u1", "delete") = 1
        /\ Sent(calls[p].id, "u3", "add") = 1
        /\ items["n1"].space_id = "s2"

\* a finished move whose destination was the item's current space
SameSpace(p) ==
    /\ Done(p, "simple_move_space") /\ calls[p].item.exists
    /\ calls[p].old_space_id = calls[p].new_space_id

\* C6: a move to the item's current space succeeds as a no-op: the step
\* that reads the item ends the call with the item as read and an empty
\* sync_ids, writes no row, issues no record and never reaches the
\* post-move hook.
C6_SameSpaceNoop ==
    [][\A p \in Procs :
        (/\ calls[p].pc = "mv_get" /\ calls'[p].pc # "mv_get"
         /\ items[calls[p].item_id].exists
         /\ items[calls[p].item_id].space_id = calls[p].data.space_id)
            => /\ calls'[p].pc = "done" /\ calls'[p].result = "ok"
               /\ calls'[p].item = items[calls[p].item_id]
               /\ calls'[p].sync_ids = 0 /\ calls'[p].wrote = {}
               /\ ~calls'[p].hooked
               /\ Records(calls[p].id) = <<>>
               /\ UNCHANGED <<db, sync>>]_vars

\* C6 witness: board b1, whose factory has a post-move hook, was moved to
\* the space it is in.
C6_Witness ==
    \E p \in Procs :
        /\ SameSpace(p) /\ calls[p].item_id = "b1" /\ calls[p].result = "ok"
        /\ calls[p].item = items["b1"]

\* C7: a move between different spaces updates the item only if the caller
\* holds the delete permission on the source and the add permission on the
\* destination; otherwise it ends FORBIDDEN with nothing written and no
\* record issued.
C7_MoveDualGate ==
    \A p \in Procs :
        LET c == calls[p]
            both == /\ Holds(c.user_id, c.old_space_id,
                             ItemPermission("delete", c.item_id))
                    /\ Holds(c.user_id, c.new_space_id,
                             ItemPermission("add", c.item_id))
        IN  (/\ c.op = "simple_move_space" /\ c.item.exists
             /\ c.old_space_id # c.new_space_id)
                => /\ c.wrote # {} => both
                   /\ (c.pc = "done" /\ ~both) =>
                        /\ c.result = "FORBIDDEN"
                        /\ c.wrote = {} /\ Records(c.id) = <<>>

\* C7 witness: u3, a guest of s2 and no member of s1, was refused the move
\* of b1 from s2 to s1, and b1 is where it was.
C7_Witness ==
    \E p \in Procs :
        /\ Done(p, "simple_move_space") /\ calls[p].result = "FORBIDDEN"
        /\ calls[p].user_id = "u3" /\ calls[p].item_id = "b1"
        /\ calls[p].old_space_id = "s2" /\ calls[p].new_space_id = "s1"
        /\ items["b1"].space_id = "s2"

\* no row of any table refers to the space
RowsGone(space_id) ==
    /\ ~spaces[space_id].exists
    /\ \A r \in spaces_users : r.space_id # space_id
    /\ \A i \in spaces_invites : i.space_id # space_id
    /\ \A i \in ItemIds : items[i].exists => items[i].space_id # space_id
    /\ \A k \in keychain : k.item_id # space_id

\* C8: when a space delete by a caller holding delete_space completes, no
\* membership, invite, note or board row of the space is left and the space
\* row and its keychain entries are gone, whatever interleaves.
C8_CascadeLeavesNothing ==
    [][\A p \in Procs :
        (Ends(p, "del_final") /\ calls'[p].result = "ok")
            => RowsGone(calls[p].space_id)']_vars

\* a cascade that no other call overlaps leaves nothing of the space
CascadeAloneLeavesNothing ==
    [][\A p \in Procs :
        (Ends(p, "del_final") /\ calls'[p].result = "ok" /\ calls'[p].alone)
            => RowsGone(calls[p].space_id)']_vars

\* the record a space delete issues for the space itself
SpaceRecord(c, user_ids, action) ==
    [call |-> c.id, to |-> user_ids, actor |-> c.user_id, type |-> "space",
     item_id |-> c.space_id, action |-> action]

\* the positions of the call's records for the space with the given action
SpaceRecords(c, action) ==
    {k \in 1..Len(Records(c.id)) :
        /\ Records(c.id)[k].type = "space"
        /\ Records(c.id)[k].action = action
        /\ Records(c.id)[k].item_id = c.space_id}

\* C9: a space delete captures the member ids before it deletes anything,
\* issues one unshare record for the space to the members it then reads,
\* and ends by issuing, as its last record, the one delete record for the
\* space, addressed to the captured ids whatever membership rows are left.
C9_FinalRecordToCaptured ==
    [][\A p \in Procs :
        LET c == calls[p] IN
        /\ (c.pc = "del_affected" /\ calls'[p].pc # "del_affected")
            => /\ calls'[p].affected_users = get_space_user_ids(c.space_id)
               /\ c.wrote = {} /\ Records(c.id) = <<>>
        /\ (c.pc = "del_unshare_ids" /\ calls'[p].pc # "del_unshare_ids")
            => calls'[p].user_ids = get_space_user_ids(c.space_id)
        /\ (c.pc = "del_unshare" /\ calls'[p].pc # "del_unshare")
            => /\ sync' = Append(sync, SpaceRecord(c, c.user_ids, "unshare"))
               /\ SpaceRecords(c, "unshare") = {}
        /\ (c.pc = "del_final" /\ calls'[p].pc # "del_final")
            => /\ calls'[p].pc = "done" /\ calls'[p].result = "ok"
               /\ sync' = Append(sync, SpaceRecord(c, c.affected_users, "delete"))
               /\ SpaceRecords(c, "delete") = {}
               /\ Cardinality(SpaceRecords(c, "unshare")) = 1]_vars

\* a finished space delete that ran the cascade
Cascaded(p) ==
    /\ Done(p, "del") /\ calls[p].result = "ok" /\ "spaces" \in calls[p].wrote

\* C9 witness: the cascade on s1 has ended; its last record went to the
\* captured members u1 and u2 although s1 has no membership row any more.
C9_Witness ==
    \E p \in Procs :
        /\ Cascaded(p) /\ calls[p].space_id = "s1"
        /\ Members(calls[p].affected_users) = {"u1", "u2"}
        /\ sync[Len(sync)] = SpaceRecord(calls[p], calls[p].affected_users, "delete")
        /\ \E k \in 1..Len(sync) :
            sync[k] = SpaceRecord(calls[p], calls[p].affected_users, "unshare")
        /\ \A r \in spaces_users : r.space_id # "s1"

\* C10: a simple_delete of an absent item (run on its own or inside the
\* cascade) and a space delete of an absent space end at the read, succeed
\* with an empty sync-id list, write nothing and issue no record.
C10_DeleteAbsentNoop ==
    [][\A p \in Procs :
        LET c == calls[p] IN
        /\ (\/ c.pc = "sd_get" /\ calls'[p].pc # "sd_get"
                /\ ~items[c.item_id].exists
            \/ c.pc = "del_exists" /\ calls'[p].pc # "del_exists"
                /\ ~spaces[c.space_id].exists)
            => /\ calls'[p].pc = "done" /\ calls'[p].result = "ok"
               /\ calls'[p].sync_ids = 0 /\ calls'[p].wrote = {}
               /\ Records(c.id) = <<>>
               /\ UNCHANGED <<db, sync>>
        /\ \A i \in ItemIds :
            (/\ c.pc = "del_items" /\ c.sub[i].pc = "get"
             /\ calls'[p].sub[i].pc # "get" /\ ~items[i].exists)
                => /\ calls'[p].sub[i].pc = "done"
                   /\ calls'[p].wrote = c.wrote
                   /\ UNCHANGED <<db, sync>>]_vars

\* C10 witness: n1 was deleted by one call and the delete repeated by a
\* second, which found it absent.
C10_Witness ==
    \E p, q \in Procs :
        /\ Done(p, "simple_delete") /\ Done(q, "simple_delete")
        /\ calls[p].item_id = "n1" /\ calls[q].item_id = "n1"
        /\ calls[p].result = "ok" /\ "items" \in calls[p].wrote
        /\ calls[p].id < calls[q].id
        /\ ~calls[q].item.exists /\ calls[q].result = "ok"
        /\ calls[q].wrote = {} /\ calls[q].sync_ids = 0
        /\ Len(sync) = 1

\* C11: a set_owner whose read of the new owner's membership record finds
\* none (the caller having passed the set_space_owner check) ends NOT_FOUND
\* at the guard, having written no row and issued no record.
C11_SetOwnerNonMember ==
    [][\A p \in Procs :
        LET c == calls[p] IN
        /\ (/\ c.pc = "so_reads" /\ "new" \in c.pending
             /\ "new" \notin calls'[p].pending
             /\ MemberRows(c.target, c.space_id) = {})
                => calls'[p].new_owner_member = NoRow
        /\ (/\ c.pc = "so_update" /\ calls'[p].pc # "so_update"
             /\ c.new_owner_member = NoRow)
                => /\ calls'[p].pc = "done" /\ calls'[p].result = "NOT_FOUND"
                   /\ c.wrote = {} /\ calls'[p].wrote = {}
                   /\ Records(c.id) = <<>>
                   /\ UNCHANGED <<db, sync>>]_vars

\* C11 witness: owner u1 asked to hand s1 to u3, who is no member of s1;
\* the call ended NOT_FOUND and s1 is as it was.
C11_Witness ==
    \E p \in Procs :
        /\ Done(p, "set_owner") /\ calls[p].user_id = "u1"
        /\ calls[p].target = "u3" /\ calls[p].result = "NOT_FOUND"
        /\ calls[p].wrote = {} /\ sync = <<>>
        /\ spaces["s1"].user_id = "u1"
        /\ Owners("s1") = {Row(1, "s1", "u1", "owner")}

\* what a set_owner that ends successfully leaves behind: the owner field
\* names the target, the target's record is owner, the caller's (when the
\* caller is not the target) is admin, and the step appends the edit record
\* for the space addressed to every member
SetOwnerEffect(p) ==
    LET c == calls[p] IN
    /\ spaces'[c.space_id].user_id = c.target
    /\ \E r \in spaces_users' : r.space_id = c.space_id /\ r.user_id = c.target
    /\ \A r \in spaces_users' :
        r.space_id = c.space_id =>
            /\ r.user_id = c.target => r.role = "owner"
            /\ (r.user_id = c.user_id /\ c.user_id # c.target) => r.role = "admin"
    /\ sync' = Append(sync, [call |-> c.id, to |-> get_space_user_ids(c.space_id),
                             actor |-> c.user_id, type |-> "space",
                             item_id |-> c.space_id, action |-> "edit"])

\* C12: a set_owner(user, space, target) that no other call overlaps and
\* that ends successfully leaves the owner field naming target, the previous
\* owner admin, target owner, and one edit record issued to every member.
C12_SetOwnerEffect ==
    [][\A p \in Procs :
        (Ends(p, "so_sync") /\ calls'[p].result = "ok" /\ calls'[p].alone)
            => SetOwnerEffect(p)]_vars

\* the same for a target other than the caller, in a space with one record
\* per member
SetOwnerToOtherEffect ==
    [][\A p \in Procs :
        (/\ Ends(p, "so_sync") /\ calls'[p].result = "ok" /\ calls'[p].alone
         /\ calls[p].target # calls[p].user_id
         /\ \A u \in Users : Cardinality(MemberRows(u, calls[p].space_id)) <= 1)
            => SetOwnerEffect(p)]_vars

MemberRemovalRecords(c) ==
    {[call |-> c.id, to |-> c.user_ids, actor |-> c.user_id, type |-> "space",
      item_id |-> c.space_id, action |-> "edit"],
     [call |-> c.id, to |-> Only(c.target), actor |-> c.user_id, type |-> "space",
      item_id |-> c.space_id, action |-> "unshare"]}

\* C15: delete_member goes past its check only for a caller holding
\* delete_space_member or removing itself, and is FORBIDDEN otherwise; when
\* it succeeds the record it read was not the owner's and is gone, the
\* member has no keychain entry for the space, the member list was read
\* after the removal, and the call has issued exactly two records: edit to
\* that list and unshare to the removed member alone.
C15_DeleteMember ==
    [][\A p \in Procs :
        LET c == calls[p]
            may == \/ Holds(c.user_id, c.space_id, "delete_space_member")
                   \/ c.user_id = c.target
        IN
        /\ (c.pc = "dm_check" /\ calls'[p].pc # "dm_check")
            => /\ calls'[p].pc = "dm_get" => may
               /\ ~may => calls'[p].pc = "done" /\ calls'[p].result = "FORBIDDEN"
        /\ (c.pc = "dm_ids" /\ calls'[p].pc # "dm_ids")
            => /\ ~RowExists(c.member.id)
               /\ calls'[p].user_ids = get_space_user_ids(c.space_id)
        /\ (c.pc = "dm_all" /\ calls'[p].pc = "done")
            => /\ calls'[p].result = "ok"
               /\ c.member # NoRow /\ c.member.role # "owner"
               /\ c.member.user_id = c.target /\ c.member.space_id = c.space_id
               /\ \A r \in spaces_users' : r.id # c.member.id
               /\ \A k \in keychain' :
                    ~(k.user_id = c.target /\ k.item_id = c.space_id)
               /\ Len(Records(c.id)') = 2
               /\ {Records(c.id)'[1], Records(c.id)'[2]} = MemberRemovalRecords(c)]_vars

\* C15 witness: u2, made a guest of s1 before, removed itself without
\* holding delete_space_member: its record and its keychain entry for s1
\* are gone, u1 got the edit record and u2 the unshare record.
C15_Witness ==
    \E p \in Procs :
        /\ Done(p, "delete_member") /\ calls[p].result = "ok"
        /\ calls[p].user_id = "u2" /\ calls[p].target = "u2"
        /\ calls[p].member.role = "guest" /\ ~calls[p].has_perm
        /\ MemberRows("u2", "s1") = {}
        /\ \A k \in keychain : ~(k.user_id = "u2" /\ k.item_id = "s1")
        /\ Sent(calls[p].id, "u1", "edit") = 1
        /\ Sent(calls[p].id, "u2", "edit") = 0
        /\ Sent(calls[p].id, "u2", "unshare") = 1
        /\ Sent(calls[p].id, "u1", "unshare") = 0

\* C16: the write of update_member and the delete of delete_member leave
\* every membership record whose role is owner as it is, whatever set_owner
\* does between their role check and that step.
C16_OwnerRecordUntouched ==
    [][\A p \in Procs :
        (\/ calls[p].pc = "um_update" /\ calls'[p].pc # "um_update"
         \/ calls[p].pc = "dm_delete" /\ calls'[p].pc # "dm_delete")
            => \A r \in spaces_users : r.role = "owner" => r \in spaces_users']_vars

\* C17: there is at most one membership record per (space, user).
C17_OneRecordPerMember ==
    \A s \in SpaceIds, u \in Users : Cardinality(MemberRows(u, s)) <= 1

\* the table holding the row a record of call c announces a change of
PrimaryTable(c, r) ==
    CASE r.type = "invite" -> "spaces_invites"
      [] r.type = "keychain" -> "keychain"
      [] r.type \in {"note", "board"} -> "items"
      [] r.type = "space" /\ r.action = "unshare" -> "spaces_users"
      [] r.type = "space" /\ r.action = "edit"
            /\ c.op \in {"update_member", "delete_member"} -> "spaces_users"
      [] OTHER -> "spaces"

\* the primary write of record r has been answered when r is written
AfterPrimary(c, r) == PrimaryTable(c, r) \in c.wrote \cup c.failed

\* the records of the cascade that tell of rows it has yet to remove
Forewarning(c, r) ==
    /\ c.op = "del"
    /\ \/ r.type = "invite" /\ r.action = "delete"
       \/ r.type = "space" /\ r.action = "unshare"

\* C18: every sync record is written after the primary storage write of the
\* mutation that issues it has been answered, the invite delete and the
\* unshare records of the space delete cascade included.
C18_RecordsAfterWrite ==
    [][\A k \in (Len(sync) + 1)..Len(sync') :
        \A p \in Procs :
            calls[p].id = sync'[k].call => AfterPrimary(calls[p], sync'[k])]_vars

\* C18 as amended: every sync record is written after the primary write of
\* its mutation has been answered, except the invite delete and the unshare
\* records of the space delete cascade, which are written before the
\* cascade removes the invite and membership rows.
C18_RecordsAfterWriteButCascade ==
    [][\A k \in (Len(sync) + 1)..Len(sync') :
        \A p \in Procs :
            calls[p].id = sync'[k].call =>
                IF Forewarning(calls[p], sync'[k])
                THEN PrimaryTable(calls[p], sync'[k]) \notin calls[p].wrote
                ELSE AfterPrimary(calls[p], sync'[k])]_vars

\* C18 witness: a simple_delete has ended, its record written after its
\* row was deleted, while a cascade has written an invite delete record and
\* the unshare record with the invite and the membership rows still there.
C18_Witness ==
    \E p, q \in Procs :
        /\ Done(q, "simple_delete") /\ calls[q].result = "ok"
        /\ "items" \in calls[q].wrote /\ Len(Records(calls[q].id)) = 1
        /\ calls[p].op = "del" /\ calls[p].pc = "del_rows"
        /\ calls[p].pending = {"users", "invites"}
        /\ \E k \in 1..Len(sync) :
            /\ sync[k].call = calls[p].id /\ sync[k].type = "invite"
            /\ \E i \in spaces_invites : i.id = sync[k].item_id
        /\ \E k \in 1..Len(sync) :
            /\ sync[k].call = calls[p].id /\ sync[k].action = "unshare"
            /\ \A u \in Members(sync[k].to) : MemberRows(u, calls[p].space_id) # {}
            /\ Members(sync[k].to) # {}

\* the one record a space add issues: an add of the space, to its creator
AddRecord(c) ==
    [call |-> c.id, to |-> Only(c.user_id), actor |-> c.user_id,
     type |-> "space", item_id |-> c.space_id, action |-> "add"]

\* C19: a successful space add by user U stores a space row whose owner
\* field is U, creates a membership record (space, U, owner), and issues
\* exactly one add sync record for the space, addressed to U alone.
C19_AddEffect ==
    [][\A p \in Procs :
        LET c == calls[p] IN
        /\ (c.pc = "add_upsert" /\ calls'[p].pc = "add_member") =>
                /\ spaces'[c.space_id].exists
                /\ spaces'[c.space_id].user_id = c.user_id
        /\ (c.pc = "add_member" /\ calls'[p].pc = "add_sync") =>
                /\ \E r \in spaces_users' \ spaces_users :
                    /\ r.space_id = c.space_id /\ r.user_id = c.user_id
                    /\ r.role = "owner"
                    /\ spaces_users' = spaces_users \cup {r}
        /\ Ends(p, "add_sync") =>
                /\ calls'[p].result = "ok"
                /\ {"spaces", "spaces_users"} \subseteq c.wrote
                /\ Records(c.id) = <<>>
                /\ sync' = Append(sync, AddRecord(c))
                /\ Members(sync'[Len(sync')].to) = {c.user_id}
                /\ calls'[p].alone =>
                    /\ spaces'[c.space_id] = Space(c.user_id, c.data.body)
                    /\ \E r \in MemberRows(c.user_id, c.space_id) : r.role = "owner"]_vars

\* C19 witness: u3, no member of s1, has added a space under the id s1 and
\* the add has ended: the row is owned by u3, u3 holds an owner record and
\* the one record of the call is an add addressed to u3 alone.
C19_Witness ==
    \E p \in Procs :
        /\ Done(p, "add") /\ calls[p].result = "ok" /\ calls[p].alone
        /\ calls[p].user_id = "u3" /\ calls[p].space_id = "s1"
        /\ spaces["s1"].user_id = "u3"
        /\ \E r \in MemberRows("u3", "s1") : r.role = "owner"
        /\ Records(calls[p].id) = <<AddRecord(calls[p])>>
        /\ Members(AddRecord(calls[p]).to) = {"u3"}

\* C20: no update_member gives a member the owner role: the record that a
\* successful update_member has written does not hold the owner role.
C20_UpdateNeverMakesOwner ==
    [][\A p \in Procs :
        LET c == calls[p] IN
        (c.pc = "um_update" /\ calls'[p].pc = "um_ids") =>
            \A r \in spaces_users' : r.id = c.member.id => r.role # "owner"]_vars

\* the membership records of a space
SpaceRows(space_id) == {r \in spaces_users : r.space_id = space_id}

\* C21: a user with no membership record in an existing space changes
\* neither the space's row nor its membership records by any step of any
\* operation, a space add under the id of that space included.
C21_NonMemberNoChange ==
    [][\A p \in Procs :
        LET c == calls[p] IN
        (/\ calls'[p].pc # c.pc
         /\ c.space_id \in SpaceIds
         /\ spaces[c.space_id].exists
         /\ MemberRows(c.user_id, c.space_id) = {}) =>
            /\ spaces'[c.space_id] = spaces[c.space_id]
            /\ {r \in spaces_users' : r.space_id = c.space_id} = SpaceRows(c.space_id)]_vars

\* a call of operation op is under way
InProgress(op) == \E p \in Procs : calls[p].op = op /\ calls[p].pc # "done"

\* C22: whenever no set_owner is in progress, the owner field of a stored
\* space row is the user id of the space's owner membership record, also
\* when a space edit interleaves with the ownership transfer.
C22_OwnerFieldIsOwnerRecord ==
    ~InProgress("set_owner") =>
        \A s \in SpaceIds : spaces[s].exists =>
            \A r \in Owners(s) : r.user_id = spaces[s].user_id

\* C23: once every operation has completed, each stored note or board row
\* references a space whose row is stored, whatever the interleaving of a
\* space delete with a simple_add or a simple_move_space into that space.
C23_ItemsReferenceSpaces ==
    (\A p \in Procs : Vacant(p)) =>
        \A i \in ItemIds : items[i].exists => spaces[items[i].space_id].exists

====
